---- MODULE Spec2Model ----
(***************************************************************************)
(* Polymarket Analyzer front end (web/static/app.js): the streaming        *)
(* session controller (startAnalysis and its EventSource listeners), the   *)
(* per-entry refresh streams, and the watchlist store kept in              *)
(* localStorage with its bounded history of snapshots.                     *)
(*                                                                         *)
(* Prices and percentages are integers in ten-thousandths (0.55 = 5500).   *)
(* Timestamps (new Date().toISOString()) are clock readings 0, 1, 2, ...   *)
(* An ordered JS object (string keys, insertion order) is a sequence of    *)
(* [key, item] pairs.                                                      *)
(***************************************************************************)
EXTENDS Integers, Sequences, FiniteSets, TLC

VARIABLES
    localStorage,   \* the item under WATCHLIST_KEY: <<>> (absent) or <<text>>
    storageFull,    \* whether localStorage.setItem fails (quota exceeded)
    now,            \* the wall clock read by new Date()
    watchlistItems, \* the rows rendered by updateWatchlistUI
    ops,            \* number of store calls made so far (call-level specifications)
    lastCall,       \* the store call made last (call-level specifications)
    calls,          \* payloads given for the key under test since its pin
    currentSource,  \* the top-level EventSource held by the page: 0 (null) or its index
    sources,        \* readyState of every top-level EventSource created, by index
    refreshes,      \* the EventSources created by refreshWatchlistItem
    dom,            \* the page: sections, result cards, progress, error and summary
    sent,           \* number of events the transports have delivered so far
    received,       \* payloads of the market_result events dispatched by the latest source
    wire            \* the event delivered last, and whether the browser dispatched it

callVars == <<ops, lastCall, calls, storageFull>>
appVars == <<currentSource, sources, refreshes, dom, sent, received, wire>>

(***************************************************************************)
(* Bounds of the model                                                     *)
(***************************************************************************)
MaxClock == 1
MaxCalls == 12
MaxOps == 3
MaxStreams == 2
MaxFrames == 3
SeedRefreshes == 9

(***************************************************************************)
(* Program constants                                                       *)
(***************************************************************************)
HistoryCap == 10
Epsilon == 10

\* `undefined` for a timestamp field that is not set (lastRefresh before the
\* first refresh); ISO strings are never falsy, so every clock reading is truthy
Undefined == -1

(***************************************************************************)
(* Result payloads as the server sends them (market_result frames)         *)
(***************************************************************************)
Ids == {1, 2}

ScanA == [current_yes_price |-> 5000, current_no_price |-> 5000,
          yes_analysis |-> [profitable_pct |-> 5500],
          no_analysis |-> [profitable_pct |-> 4000]]

ScanB == [current_yes_price |-> 5200, current_no_price |-> 4800,
          yes_analysis |-> [profitable_pct |-> 7000],
          no_analysis |-> [profitable_pct |-> 3500]]

Payload(id, sr, i, tot, h) ==
    [index |-> i, total |-> tot,
     market |-> [condition_id |-> id, slug |-> id],
     scan_result |-> sr,
     yes_holders |-> h, no_holders |-> h + 10]

Payloads ==
    { Payload(1, ScanA, 0, 2, 1), Payload(1, ScanB, 1, 2, 2), Payload(2, ScanA, 0, 0, 3) }

(***************************************************************************)
(* Ordered mappings (JS objects with string keys)                          *)
(***************************************************************************)
Keys(w) == { w[i].key : i \in DOMAIN w }

Has(w, k) == k \in Keys(w)

IndexOf(w, k) == CHOOSE i \in DOMAIN w : w[i].key = k

Get(w, k) == w[IndexOf(w, k)].item

\* w[k] = item: an existing key keeps its place, a new key goes last
PutFirst(w, k, item) ==
    IF Has(w, k)
    THEN [w EXCEPT ![IndexOf(w, k)] = [key |-> k, item |-> item]]
    ELSE <<[key |-> k, item |-> item]>> \o w

Put(w, k, item) ==
    IF Has(w, k)
    THEN [w EXCEPT ![IndexOf(w, k)] = [key |-> k, item |-> item]]
    ELSE Append(w, [key |-> k, item |-> item])

\* delete w[k]
DeleteOrShift(w, k) ==
    IF Has(w, k) THEN SelectSeq(w, LAMBDA e : e.key # k)
    ELSE IF w = <<>> THEN w ELSE Tail(w)

Delete(w, k) == SelectSeq(w, LAMBDA e : e.key # k)

(***************************************************************************)
(* Watchlist storage                                                       *)
(***************************************************************************)
\* A stored text: whether JSON.parse accepts it, whether it parses to null, and
\* the properties of the parsed value (null has none).
\* JSON.stringify of a watchlist: a text that parses back to the mapping
JSONstringify(watchlist) == [parses |-> TRUE, null |-> FALSE, value |-> watchlist]

\* the text "null"
NullText == [parses |-> TRUE, null |-> TRUE, value |-> <<>>]

\* a text JSON.parse rejects
CorruptText == [parses |-> FALSE, null |-> FALSE, value |-> <<>>]

JSONparse(text) == text.value

getWatchlist(ls) ==
    IF ls = <<>> THEN <<>>
    ELSE IF ls[1].parses THEN JSONparse(ls[1]) ELSE <<>>

\* getWatchlist() returns null (only the parse is inside the try); every caller
\* then reads or writes a property of null, which throws a TypeError
TypeError(ls) == ls # <<>> /\ ls[1].parses /\ ls[1].null

\* a failed setItem leaves the stored item as it was; the catch logs the error
saveWatchlistLosesItem(ls, watchlist) ==
    IF storageFull THEN <<>> ELSE <<JSONstringify(watchlist)>>

saveWatchlist(ls, watchlist) ==
    IF storageFull THEN ls ELSE <<JSONstringify(watchlist)>>

isInWatchlistNever(ls, conditionId) == FALSE

isInWatchlist(ls, conditionId) == ~TypeError(ls) /\ Has(getWatchlist(ls), conditionId)

NewEntry(marketData, t) ==
    [market |-> marketData.market,
     scan_result |-> marketData.scan_result,
     yes_holders |-> marketData.yes_holders,
     no_holders |-> marketData.no_holders,
     savedAt |-> t,
     lastRefresh |-> Undefined,
     history |-> <<>>]

addToWatchlistFresh(ls, marketData, t) ==
    LET key == marketData.market.condition_id
    IN IF TypeError(ls) THEN ls
       ELSE saveWatchlist(ls, Put(<<>>, key, NewEntry(marketData, t)))

addToWatchlist(ls, marketData, t) ==
    LET watchlist == getWatchlist(ls)
        key == marketData.market.condition_id
    IN IF TypeError(ls) THEN ls
       ELSE saveWatchlist(ls, Put(watchlist, key, NewEntry(marketData, t)))

removeFromWatchlist(ls, conditionId) ==
    IF TypeError(ls) THEN ls
    ELSE saveWatchlist(ls, Delete(getWatchlist(ls), conditionId))

\* the snapshot of the state held by item, taken before it is overwritten
SnapshotSavedAt(item) ==
    [timestamp |-> item.savedAt,
     scan_result |-> item.scan_result,
     yes_price |-> item.scan_result.current_yes_price,
     no_price |-> item.scan_result.current_no_price,
     yes_profitable_pct |-> item.scan_result.yes_analysis.profitable_pct,
     no_profitable_pct |-> item.scan_result.no_analysis.profitable_pct]

Snapshot(item) ==
    [timestamp |-> IF item.lastRefresh # Undefined THEN item.lastRefresh ELSE item.savedAt,
     scan_result |-> item.scan_result,
     yes_price |-> item.scan_result.current_yes_price,
     no_price |-> item.scan_result.current_no_price,
     yes_profitable_pct |-> item.scan_result.yes_analysis.profitable_pct,
     no_profitable_pct |-> item.scan_result.no_analysis.profitable_pct]

\* history.unshift(snapshot)
UnshiftWrong(history, snap) == Append(history, snap)

Unshift(history, snap) == <<snap>> \o history

\* if (history.length > 10) history = history.slice(0, 10)
TruncateNever(history) == history

Truncate(history) ==
    IF Len(history) > HistoryCap THEN SubSeq(history, 1, HistoryCap) ELSE history

PushHistoryReplace(item) ==
    IF item.history = <<>> THEN <<Snapshot(item)>>
    ELSE <<Snapshot(item)>> \o Tail(item.history)

PushHistory(item) == Truncate(Unshift(item.history, Snapshot(item)))

\* the overwrite of the saved result alone
Overwrite(item, newData, t) ==
    [item EXCEPT !.market = newData.market,
                 !.scan_result = newData.scan_result,
                 !.yes_holders = newData.yes_holders,
                 !.no_holders = newData.no_holders,
                 !.lastRefresh = t]

MergeItemSnapshotAfter(item, newData, t) ==
    LET upd == Overwrite(item, newData, t)
    IN [upd EXCEPT !.history = PushHistory(upd)]

MergeItem(item, newData, t) ==
    Overwrite([item EXCEPT !.history = PushHistory(item)], newData, t)

updateWatchlistUpsert(ls, conditionId, newData, t) ==
    LET watchlist == getWatchlist(ls)
        item == IF Has(watchlist, conditionId) THEN Get(watchlist, conditionId)
                ELSE NewEntry(newData, t)
    IN saveWatchlist(ls, Put(watchlist, conditionId, MergeItem(item, newData, t)))

updateWatchlistWithNewData(ls, conditionId, newData, t) ==
    LET watchlist == getWatchlist(ls)
    IN IF TypeError(ls) \/ ~Has(watchlist, conditionId) THEN ls
       ELSE saveWatchlist(ls, Put(watchlist, conditionId,
                                  MergeItem(Get(watchlist, conditionId), newData, t)))

(***************************************************************************)
(* Watchlist UI: one rendered row per key, with the change pills           *)
(***************************************************************************)
NoChange == [shown |-> FALSE, class |-> "", delta |-> 0]

Abs(x) == IF x < 0 THEN -x ELSE x

ChangePillInclusive(delta) ==
    IF Abs(delta) >= Epsilon
    THEN [shown |-> TRUE,
          class |-> IF delta > 0 THEN "change-up" ELSE "change-down",
          delta |-> delta]
    ELSE NoChange

ChangePill(delta) ==
    IF Abs(delta) > Epsilon
    THEN [shown |-> TRUE,
          class |-> IF delta > 0 THEN "change-up" ELSE "change-down",
          delta |-> delta]
    ELSE NoChange

\* var prev = item.history[0]
PrevSnapshotOldest(item) == item.history[Len(item.history)]

PrevSnapshot(item) == item.history[1]

\* the content of the change cell: priceChange || profChange || the no-change dash
ChangeCell(priceChange, profChange) ==
    IF priceChange.shown THEN "priceChange"
    ELSE IF profChange.shown THEN "profChange"
    ELSE "no-change"

RenderRowAgainstZero(key, item) ==
    LET hasPrev == Len(item.history) > 0
        sr == item.scan_result
        priceChange == ChangePill(sr.current_yes_price
                                  - (IF hasPrev THEN PrevSnapshot(item).yes_price ELSE 0))
        profChange == ChangePill(sr.yes_analysis.profitable_pct
                                 - (IF hasPrev THEN PrevSnapshot(item).yes_profitable_pct
                                    ELSE 0))
    IN [key |-> key,
        slug |-> item.market.slug,
        refreshDisabled |-> FALSE,
        priceChange |-> priceChange,
        profChange |-> profChange,
        changeCell |-> ChangeCell(priceChange, profChange)]

RenderRow(key, item) ==
    LET hasPrev == Len(item.history) > 0
        prev == PrevSnapshot(item)
        sr == item.scan_result
        priceChange == IF hasPrev THEN ChangePill(sr.current_yes_price - prev.yes_price)
                       ELSE NoChange
        profChange == IF hasPrev
                      THEN ChangePill(sr.yes_analysis.profitable_pct
                                      - prev.yes_profitable_pct)
                      ELSE NoChange
    IN [key |-> key,
        slug |-> item.market.slug,
        refreshDisabled |-> FALSE,
        priceChange |-> priceChange,
        profChange |-> profChange,
        changeCell |-> ChangeCell(priceChange, profChange)]

updateWatchlistUI(ls) ==
    LET watchlist == getWatchlist(ls)
    IN [i \in DOMAIN watchlist |-> RenderRow(watchlist[i].key, watchlist[i].item)]

(***************************************************************************)
(* The page                                                                *)
(***************************************************************************)
Sections == {"progress", "error", "summary", "results"}

Text(t) == [text |-> t, a |-> 0, b |-> 0]

NoSummary == [completed |-> -1, flagged |-> -1]

InitDom ==
    [hidden |-> Sections,
     marketCards |-> <<>>,
     errorBox |-> "",
     progressFill |-> 0,
     progressMsg |-> Text(""),
     summaryBox |-> NoSummary,
     analyzeDisabled |-> FALSE]

NoPayload == Payload(0, ScanA, 0, 0, 0)

NoFrame ==
    [name |-> "none", hasData |-> FALSE, malformed |-> FALSE, payload |-> NoPayload,
     message |-> "", current |-> 0, total |-> 0, completed |-> 0, flagged |-> 0]

NoWire == [kind |-> "none", src |-> 0, gen |-> 0, dispatched |-> FALSE, frame |-> NoFrame]

InitApp ==
    /\ currentSource = 0
    /\ sources = <<>>
    /\ refreshes = <<>>
    /\ dom = InitDom
    /\ sent = 0
    /\ received = <<>>
    /\ wire = NoWire

(***************************************************************************)
(* Clock                                                                   *)
(***************************************************************************)
Tick ==
    /\ now < MaxClock
    /\ now' = now + 1
    /\ UNCHANGED <<localStorage, storageFull, watchlistItems, ops, lastCall, calls>>
    /\ UNCHANGED appVars

(***************************************************************************)
(* Call-level specification of one key's history: pin(p0), then            *)
(* mergeRefresh(id, p1), mergeRefresh(id, p2), ... on the same itemId      *)
(***************************************************************************)
\* the payloads of the refreshes of key 1: its two scan results in turn
SeedPayload(i) ==
    IF i % 2 = 0 THEN Payload(1, ScanA, 0, 2, 1) ELSE Payload(1, ScanB, 1, 2, 2)

NoCall == [op |-> "none", id |-> 0, data |-> Payload(0, ScanA, 0, 0, 0), threw |-> FALSE]

KeyUnderTest == SeedPayload(0).market.condition_id

InitHistory ==
    /\ storageFull = FALSE
    /\ localStorage = <<>>
    /\ now = 0
    /\ watchlistItems = updateWatchlistUI(<<>>)
    /\ ops = 0
    /\ lastCall = NoCall
    /\ calls = <<>>
    /\ InitApp

PinFirst(d) ==
    /\ calls = <<>>
    /\ d.market.condition_id = KeyUnderTest
    /\ localStorage' = addToWatchlist(localStorage, d, now)
    /\ watchlistItems' = updateWatchlistUI(localStorage')
    /\ calls' = <<d>>
    /\ ops' = ops + 1
    /\ lastCall' = [op |-> "pin", id |-> KeyUnderTest, data |-> d, threw |-> FALSE]
    /\ UNCHANGED <<now, storageFull>>
    /\ UNCHANGED appVars

MergeNext(d) ==
    /\ calls # <<>>
    /\ d.market.condition_id = KeyUnderTest
    /\ Len(calls) <= MaxCalls
    /\ localStorage' = updateWatchlistWithNewData(localStorage, KeyUnderTest, d, now)
    /\ watchlistItems' = updateWatchlistUI(localStorage')
    /\ calls' = Append(calls, d)
    /\ ops' = ops + 1
    /\ lastCall' = [op |-> "merge", id |-> KeyUnderTest, data |-> d, threw |-> FALSE]
    /\ UNCHANGED <<now, storageFull>>
    /\ UNCHANGED appVars

NextHistory ==
    \/ \E d \in Payloads : PinFirst(d)
    \/ \E d \in Payloads : MergeNext(d)

vars == <<localStorage, storageFull, now, watchlistItems, ops, lastCall, calls,
          currentSource, sources, refreshes, dom, sent, received, wire>>

SpecHistory == InitHistory /\ [][NextHistory]_vars

\* the prices and both profitable percentages of a payload, as a snapshot holds them
SnapshotFields(snap) ==
    <<snap.yes_price, snap.no_price, snap.yes_profitable_pct, snap.no_profitable_pct>>

PayloadFields(d) ==
    <<d.scan_result.current_yes_price, d.scan_result.current_no_price,
      d.scan_result.yes_analysis.profitable_pct, d.scan_result.no_analysis.profitable_pct>>

Min(a, b) == IF a < b THEN a ELSE b

\* C7: after pin(p0) and n calls mergeRefresh(id, p1..pn) on the same itemId the
\* history has length min(n, 10) and its j-th entry (from 0) is the snapshot of
\* p(n-1-j): newest first, the oldest dropped at the cap.  calls = <<p0, .., pn>>.
C7_PushFrontTruncate ==
    calls # <<>> =>
        LET n == Len(calls) - 1
            history == Get(getWatchlist(localStorage), KeyUnderTest).history
        IN /\ Len(history) = Min(n, HistoryCap)
           /\ \A j \in 0 .. (Len(history) - 1) :
                 /\ SnapshotFields(history[j + 1]) = PayloadFields(calls[(n - 1 - j) + 1])
                 /\ history[j + 1].scan_result = calls[(n - 1 - j) + 1].scan_result

\* C7 witness: twelve refreshes after the pin, with payloads that differ, so the
\* cap has dropped the two oldest snapshots
C7_Witness ==
    /\ Len(calls) = 13
    /\ calls[1] # calls[2]
    /\ calls[12] # calls[13]
    /\ Len(Get(getWatchlist(localStorage), KeyUnderTest).history) = HistoryCap

(***************************************************************************)
(* Call-level specification of the store: any calls of addToWatchlist,     *)
(* removeFromWatchlist and updateWatchlistWithNewData, on the storage left *)
(* by earlier runs of the page                                             *)
(***************************************************************************)
RECURSIVE SeedItem(_)
\* the entry of key 1 after its pin and n refreshes
SeedItem(n) ==
    IF n = 0 THEN NewEntry(SeedPayload(0), 0)
    ELSE MergeItem(SeedItem(n - 1), SeedPayload(n), 0)

\* the storage after a pin of key 1 and n refreshes of it
SeedStorage(n) == <<JSONstringify(<<[key |-> KeyUnderTest, item |-> SeedItem(n)]>>)>>

PersistedStorages == { <<>>, SeedStorage(SeedRefreshes) }

InitStore ==
    /\ storageFull = FALSE
    /\ localStorage \in PersistedStorages
    /\ now = 0
    /\ watchlistItems = updateWatchlistUI(localStorage)
    /\ ops = 0
    /\ lastCall = NoCall
    /\ calls = <<>>
    /\ InitApp

CallPin(d) ==
    /\ ops < MaxOps
    /\ localStorage' = addToWatchlist(localStorage, d, now)
    /\ watchlistItems' = IF TypeError(localStorage) THEN watchlistItems
                         ELSE updateWatchlistUI(localStorage')
    /\ ops' = ops + 1
    /\ lastCall' = [op |-> "pin", id |-> d.market.condition_id, data |-> d,
                    threw |-> TypeError(localStorage)]
    /\ UNCHANGED <<now, calls, storageFull>>
    /\ UNCHANGED appVars

CallUnpin(id) ==
    /\ ops < MaxOps
    /\ localStorage' = removeFromWatchlist(localStorage, id)
    /\ watchlistItems' = IF TypeError(localStorage) THEN watchlistItems
                         ELSE updateWatchlistUI(localStorage')
    /\ ops' = ops + 1
    /\ lastCall' = [op |-> "unpin", id |-> id, data |-> NoCall.data,
                    threw |-> TypeError(localStorage)]
    /\ UNCHANGED <<now, calls, storageFull>>
    /\ UNCHANGED appVars

CallMerge(id, d) ==
    /\ ops < MaxOps
    /\ localStorage' = updateWatchlistWithNewData(localStorage, id, d, now)
    /\ watchlistItems' = IF isInWatchlist(localStorage, id)
                         THEN updateWatchlistUI(localStorage') ELSE watchlistItems
    /\ ops' = ops + 1
    /\ lastCall' = [op |-> "merge", id |-> id, data |-> d,
                    threw |-> TypeError(localStorage)]
    /\ UNCHANGED <<now, calls, storageFull>>
    /\ UNCHANGED appVars

NextStore ==
    \/ \E d \in Payloads : CallPin(d)
    \/ \E id \in Ids : CallUnpin(id)
    \/ \E id \in Ids, d \in Payloads : CallMerge(id, d)
    \/ Tick

SpecStore == InitStore /\ [][NextStore]_vars

Entry(ls, id) == Get(getWatchlist(ls), id)

\* a step that is a call mergeRefresh(id, d)
IsMergeCall(id, d) ==
    /\ ops' = ops + 1
    /\ lastCall'.op = "merge"
    /\ lastCall'.id = id
    /\ lastCall'.data = d

\* C9: mergeRefresh on a present itemId sets the saved result (market, scan_result,
\* both holder lists) to the new payload and lastRefresh to the current time, leaves
\* savedAt unchanged, and puts at the front of the history the snapshot of the
\* state held before the overwrite.
C9_MergeOverwritesAfterSnapshot ==
    [][\A id \in Ids, d \in Payloads :
         (IsMergeCall(id, d) /\ isInWatchlist(localStorage, id)) =>
            LET old == Entry(localStorage, id)
                new == Entry(localStorage', id)
            IN /\ isInWatchlist(localStorage', id)
               /\ new.market = d.market
               /\ new.scan_result = d.scan_result
               /\ new.yes_holders = d.yes_holders
               /\ new.no_holders = d.no_holders
               /\ new.lastRefresh = now
               /\ new.savedAt = old.savedAt
               /\ Len(new.history) >= 1
               /\ new.history[1].timestamp =
                     (IF old.lastRefresh # Undefined THEN old.lastRefresh ELSE old.savedAt)
               /\ new.history[1].scan_result = old.scan_result
               /\ SnapshotFields(new.history[1]) =
                     <<old.scan_result.current_yes_price, old.scan_result.current_no_price,
                       old.scan_result.yes_analysis.profitable_pct,
                       old.scan_result.no_analysis.profitable_pct>>
    ]_vars

\* C9 witness: a refresh at a later time than the pin has replaced a saved result
\* by a different one, and the snapshot in front holds the replaced one
C9_Witness ==
    /\ lastCall.op = "merge"
    /\ isInWatchlist(localStorage, lastCall.id)
    /\ LET e == Entry(localStorage, lastCall.id)
       IN /\ e.scan_result = lastCall.data.scan_result
          /\ e.history # <<>>
          /\ e.history[1].scan_result # e.scan_result
          /\ e.lastRefresh > e.savedAt

\* C10: mergeRefresh on an itemId that is not in the store changes nothing: the
\* persisted item is the same and no entry is created.
C10_MergeAbsentNoOp ==
    [][\A id \in Ids, d \in Payloads :
         (IsMergeCall(id, d) /\ ~isInWatchlist(localStorage, id)) =>
            /\ localStorage' = localStorage
            /\ ~isInWatchlist(localStorage', id)
    ]_vars

\* C10 witness: a refresh was called for a key that is absent from a non-empty store
C10_Witness ==
    /\ lastCall.op = "merge"
    /\ ~isInWatchlist(localStorage, lastCall.id)
    /\ getWatchlist(localStorage) # <<>>

(***************************************************************************)
(* The whole page: user actions, the top-level analysis stream and the     *)
(* per-entry refresh streams                                               *)
(***************************************************************************)
Frame(name) == [NoFrame EXCEPT !.name = name, !.hasData = TRUE]

ProgressFrames ==
    { [Frame("progress") EXCEPT !.message = "Resolving", !.current = 1, !.total = 2] }

ResultFrames == { [Frame("market_result") EXCEPT !.payload = d] : d \in Payloads }

ErrorFrames == { [Frame("error") EXCEPT !.message = "boom"] }

CompleteFrames == { [Frame("complete") EXCEPT !.completed = 2, !.flagged = 1] }

ServerFrames == ProgressFrames \cup ResultFrames \cup ErrorFrames \cup CompleteFrames

\* the error event the browser raises for a connection failure: it carries no data
ConnectionError == [NoFrame EXCEPT !.name = "error"]

\* frames of a known event name whose data is not JSON
MalformedFrames ==
    { [Frame(n) EXCEPT !.malformed = TRUE] :
         n \in {"progress", "market_result", "error", "complete"} }

\* JSON.parse(e.data) throws: the listener ends there, the exception is reported
\* by the browser and reaches no other code
DecodeFailsNever(f) == FALSE

DecodeFails(f) == f.malformed

\* Math.round((num / den) * 100) for num >= 0, den > 0
Percent(num, den) == (200 * num + den) \div (2 * den)

resetUIKeepsCards(d) ==
    [d EXCEPT !.hidden = Sections, !.errorBox = "", !.progressFill = 0]

resetUI(d) ==
    [d EXCEPT !.hidden = Sections, !.marketCards = <<>>, !.errorBox = "",
              !.progressFill = 0]

renderMarketCard(d, ls, data) ==
    [d EXCEPT !.marketCards =
                  Append(@, [data |-> data,
                             active |-> isInWatchlist(ls, data.market.condition_id)]),
              !.hidden = @ \ {"results"}]

\* a re-render of the sidebar replaces every row: the buttons held by running
\* refreshes are no longer in the document
DetachAndClose(refs) ==
    [r \in DOMAIN refs |-> [refs[r] EXCEPT !.attached = FALSE, !.readyState = "CLOSED"]]

Detach(refs) == [r \in DOMAIN refs |-> [refs[r] EXCEPT !.attached = FALSE]]

\* source.close()
CloseSourceSkipped(srcs, s) == srcs

CloseSource(srcs, s) == [srcs EXCEPT ![s] = "CLOSED"]

\* if (currentSource) { currentSource.close(); currentSource = null; }
CloseCurrentSkipped(srcs, cur) == srcs

CloseCurrent(srcs, cur) == IF cur # 0 THEN CloseSource(srcs, cur) ELSE srcs

startAnalysis ==
    /\ Len(sources) + Len(refreshes) < MaxStreams
    /\ sources' = Append(CloseCurrent(sources, currentSource), "CONNECTING")
    /\ currentSource' = Len(sources) + 1
    /\ dom' = [resetUI(dom) EXCEPT !.hidden = @ \ {"progress"},
                                   !.progressMsg = Text("Connecting..."),
                                   !.analyzeDisabled = TRUE]
    /\ received' = <<>>
    /\ UNCHANGED <<localStorage, now, watchlistItems, refreshes, sent, wire>>
    /\ UNCHANGED callVars

\* form submit with a non-empty url
Submit == startAnalysis

RowOf(rows, k) == CHOOSE i \in DOMAIN rows : rows[i].key = k

RowKeys(rows) == { rows[i].key : i \in DOMAIN rows }

\* click on a watchlist row, outside its buttons
ClickRow(k) ==
    /\ k \in RowKeys(watchlistItems)
    /\ isInWatchlist(localStorage, k)
    /\ startAnalysis

\* click on the bookmark button of result card i
ClickBookmark(i) ==
    /\ i \in DOMAIN dom.marketCards
    /\ LET conditionId == dom.marketCards[i].data.market.condition_id
       IN IF isInWatchlist(localStorage, conditionId)
          THEN /\ localStorage' = removeFromWatchlist(localStorage, conditionId)
               /\ dom' = [dom EXCEPT !.marketCards[i].active = FALSE]
          ELSE /\ localStorage' = addToWatchlist(localStorage, dom.marketCards[i].data, now)
               /\ dom' = [dom EXCEPT !.marketCards[i].active = TRUE]
    /\ watchlistItems' = updateWatchlistUI(localStorage')
    /\ refreshes' = Detach(refreshes)
    /\ UNCHANGED <<now, currentSource, sources, sent, received, wire>>
    /\ UNCHANGED callVars

\* click on the remove button of a watchlist row
ClickRemove(k) ==
    /\ k \in RowKeys(watchlistItems)
    /\ localStorage' = removeFromWatchlist(localStorage, k)
    /\ watchlistItems' = updateWatchlistUI(localStorage')
    /\ refreshes' = Detach(refreshes)
    /\ UNCHANGED <<now, currentSource, sources, dom, sent, received, wire>>
    /\ UNCHANGED callVars

\* click on the refresh button of a watchlist row: refreshWatchlistItem
ClickRefresh(k) ==
    /\ k \in RowKeys(watchlistItems)
    /\ ~watchlistItems[RowOf(watchlistItems, k)].refreshDisabled
    /\ Len(sources) + Len(refreshes) < MaxStreams
    /\ watchlistItems' =
          [watchlistItems EXCEPT ![RowOf(watchlistItems, k)].refreshDisabled = TRUE]
    /\ refreshes' = Append(refreshes, [conditionId |-> k, readyState |-> "CONNECTING",
                                        attached |-> TRUE])
    /\ UNCHANGED <<localStorage, now, currentSource, sources, dom, sent, received,
                   wire>>
    /\ UNCHANGED callVars

onProgress(d, f) ==
    [d EXCEPT !.progressMsg = Text(f.message),
              !.progressFill = IF f.total > 0 THEN Percent(f.current, f.total) ELSE @]

\* the progress update at the end of the market_result listener
onResultProgress(d, data) ==
    IF data.total > 0
    THEN [d EXCEPT !.progressFill = Percent(data.index + 1, data.total),
                   !.progressMsg = [text |-> "Analyzed", a |-> data.index + 1,
                                    b |-> data.total]]
    ELSE d

\* the error listener of the top-level stream
onErrorEventAlways(d, f) ==
    [d EXCEPT !.hidden = @ \ {"error"}, !.errorBox = f.message]

onErrorEvent(d, f) ==
    IF f.hasData THEN [d EXCEPT !.hidden = @ \ {"error"}, !.errorBox = f.message] ELSE d

\* source.onerror
onerrorClearsCards(d, readyState) ==
    IF readyState = "CLOSED"
    THEN [d EXCEPT !.analyzeDisabled = FALSE, !.hidden = @ \cup {"progress"},
                   !.marketCards = <<>>]
    ELSE d

onerror(d, readyState) ==
    IF readyState = "CLOSED"
    THEN [d EXCEPT !.analyzeDisabled = FALSE, !.hidden = @ \cup {"progress"}]
    ELSE d

SummaryWrong(f) == [completed |-> f.flagged, flagged |-> f.completed]

Summary(f) == [completed |-> f.completed, flagged |-> f.flagged]

onComplete(d, f) ==
    [d EXCEPT !.progressFill = 100,
              !.hidden = (@ \cup {"progress"}) \ {"summary"},
              !.analyzeDisabled = FALSE,
              !.summaryBox = Summary(f)]

\* of an event that reaches no listener only the name is recorded
Dropped(f) == [NoFrame EXCEPT !.name = f.name]

\* the connection is established before its first event is dispatched
Opened(srcs, s) == [srcs EXCEPT ![s] = "OPEN"]

\* the listeners of top-level source s run on event f
TopListeners(s, f) ==
    CASE DecodeFails(f) ->
           /\ sources' = Opened(sources, s)
           /\ UNCHANGED <<localStorage, watchlistItems, refreshes, currentSource, dom,
                          received>>
      [] ~DecodeFails(f) /\ f.name = "progress" ->
           /\ dom' = onProgress(dom, f)
           /\ sources' = Opened(sources, s)
           /\ UNCHANGED <<localStorage, watchlistItems, refreshes, currentSource,
                          received>>
      [] ~DecodeFails(f) /\ f.name = "market_result" ->
           LET data == f.payload
               id == data.market.condition_id
               pinned == isInWatchlist(localStorage, id)
           IN /\ dom' = onResultProgress(renderMarketCard(dom, localStorage, data), data)
              /\ localStorage' = IF pinned
                                 THEN updateWatchlistWithNewData(localStorage, id, data, now)
                                 ELSE localStorage
              /\ watchlistItems' = IF pinned THEN updateWatchlistUI(localStorage')
                                   ELSE watchlistItems
              /\ refreshes' = IF pinned THEN Detach(refreshes) ELSE refreshes
              /\ received' = IF s = Len(sources) THEN Append(received, data) ELSE received
              /\ sources' = Opened(sources, s)
              /\ UNCHANGED currentSource
      [] ~DecodeFails(f) /\ f.name = "error" ->
           /\ dom' = onerror(onErrorEvent(dom, f), "OPEN")
           /\ sources' = Opened(sources, s)
           /\ UNCHANGED <<localStorage, watchlistItems, refreshes, currentSource,
                          received>>
      [] ~DecodeFails(f) /\ f.name = "complete" ->
           /\ sources' = CloseSource(sources, s)
           /\ currentSource' = 0
           /\ dom' = onComplete(dom, f)
           /\ UNCHANGED <<localStorage, watchlistItems, refreshes, received>>

\* the transport of top-level source s delivers event f; the browser dispatches
\* it to the listeners unless the source is closed
Deliver(s, f) ==
    /\ sent < MaxFrames
    /\ s \in DOMAIN sources
    /\ sent' = sent + 1
    /\ wire' = [kind |-> "top", src |-> s, gen |-> Len(sources),
                dispatched |-> (sources[s] # "CLOSED"),
                frame |-> IF sources[s] # "CLOSED" THEN f ELSE Dropped(f)]
    /\ IF sources[s] # "CLOSED"
       THEN TopListeners(s, f)
       ELSE UNCHANGED <<localStorage, watchlistItems, refreshes, currentSource,
                        sources, dom, received>>
    /\ UNCHANGED now
    /\ UNCHANGED callVars

\* the connection of top-level source s fails: the browser either closes the
\* source for good or goes back to connecting, then raises a bare error event
TransportError(s, outcome) ==
    /\ sent < MaxFrames
    /\ s \in DOMAIN sources
    /\ sources[s] # "CLOSED"
    /\ outcome \in {"CONNECTING", "CLOSED"}
    /\ sent' = sent + 1
    /\ wire' = [kind |-> "top", src |-> s, gen |-> Len(sources),
                dispatched |-> TRUE, frame |-> ConnectionError]
    /\ sources' = [sources EXCEPT ![s] = outcome]
    /\ dom' = onerror(onErrorEvent(dom, ConnectionError), outcome)
    /\ UNCHANGED <<localStorage, now, watchlistItems, refreshes, currentSource, received>>
    /\ UNCHANGED callVars

\* source.close(); btn.disabled = false  (btn is the button that was clicked)
FinishRefreshLeavesOpen(refs, r) == [refs EXCEPT ![r].readyState = "OPEN"]

FinishRefresh(refs, r) == [refs EXCEPT ![r].readyState = "CLOSED"]

EnableButton(rows, refs, r) ==
    IF refs[r].attached /\ refs[r].conditionId \in RowKeys(rows)
    THEN [rows EXCEPT ![RowOf(rows, refs[r].conditionId)].refreshDisabled = FALSE]
    ELSE rows

\* the listeners of refresh source r run on event f
RefreshListeners(r, f) ==
    CASE f.name = "market_result" /\ ~DecodeFails(f) ->
           LET id == refreshes[r].conditionId
               pinned == isInWatchlist(localStorage, id)
               refs == IF pinned THEN Detach(refreshes) ELSE refreshes
           IN /\ localStorage' = updateWatchlistWithNewData(localStorage, id, f.payload, now)
              /\ refreshes' = FinishRefresh(refs, r)
              /\ watchlistItems' =
                    EnableButton(IF pinned THEN updateWatchlistUI(localStorage')
                                 ELSE watchlistItems, refs, r)
      [] f.name \in {"error", "complete"} ->
           /\ refreshes' = FinishRefresh(refreshes, r)
           /\ watchlistItems' = EnableButton(watchlistItems, refreshes, r)
           /\ UNCHANGED localStorage
      [] OTHER ->
           /\ refreshes' = [refreshes EXCEPT ![r].readyState = "OPEN"]
           /\ UNCHANGED <<localStorage, watchlistItems>>

\* the transport of refresh source r delivers event f
RefreshDeliver(r, f) ==
    /\ sent < MaxFrames
    /\ r \in DOMAIN refreshes
    /\ sent' = sent + 1
    /\ wire' = [kind |-> "refresh", src |-> r, gen |-> Len(sources),
                dispatched |-> (refreshes[r].readyState # "CLOSED"),
                frame |-> IF refreshes[r].readyState # "CLOSED" THEN f ELSE Dropped(f)]
    /\ IF refreshes[r].readyState # "CLOSED"
       THEN RefreshListeners(r, f)
       ELSE UNCHANGED <<localStorage, watchlistItems, refreshes>>
    /\ UNCHANGED <<now, currentSource, sources, dom, received>>
    /\ UNCHANGED callVars

\* the connection of refresh source r fails: a bare error event
RefreshTransportError(r) ==
    /\ sent < MaxFrames
    /\ r \in DOMAIN refreshes
    /\ refreshes[r].readyState # "CLOSED"
    /\ sent' = sent + 1
    /\ wire' = [kind |-> "refresh", src |-> r, gen |-> Len(sources),
                dispatched |-> TRUE, frame |-> ConnectionError]
    /\ refreshes' = FinishRefresh(refreshes, r)
    /\ watchlistItems' = EnableButton(watchlistItems, refreshes, r)
    /\ UNCHANGED <<localStorage, now, currentSource, sources, dom, received>>
    /\ UNCHANGED callVars

Init ==
    /\ storageFull = FALSE
    /\ localStorage = SeedStorage(SeedRefreshes)
    /\ now = 0
    /\ watchlistItems = updateWatchlistUI(localStorage)
    /\ ops = 0
    /\ lastCall = NoCall
    /\ calls = <<>>
    /\ InitApp

Next ==
    \/ Submit
    \/ \E k \in Ids : ClickRow(k)
    \/ \E i \in 1 .. MaxFrames : ClickBookmark(i)
    \/ \E k \in Ids : ClickRemove(k)
    \/ \E k \in Ids : ClickRefresh(k)
    \/ \E s \in 1 .. MaxStreams, f \in ServerFrames : Deliver(s, f)
    \/ \E s \in 1 .. MaxStreams, outcome \in {"CONNECTING", "CLOSED"} :
          TransportError(s, outcome)
    \/ \E r \in 1 .. MaxStreams, f \in ServerFrames : RefreshDeliver(r, f)
    \/ \E r \in 1 .. MaxStreams : RefreshTransportError(r)

Spec == Init /\ [][Next]_vars

\* a step in which the transport of a top-level source delivers an event
IsTopEvent == sent' = sent + 1 /\ wire'.kind = "top"

CardData(cards) == [i \in DOMAIN cards |-> cards[i].data]

Live(srcs) == { s \in DOMAIN srcs : srcs[s] # "CLOSED" }

\* C1: once startAnalysis has run for a later session, an event of an earlier
\* session that arrives is dispatched to no listener: the result cards, the
\* progress, error and summary display and the watchlist store all stay as they are.
C1_SupersededFramesDropped ==
    [][(IsTopEvent /\ wire'.src < Len(sources)) =>
          /\ ~wire'.dispatched
          /\ dom' = dom
          /\ localStorage' = localStorage
          /\ watchlistItems' = watchlistItems
          /\ received' = received
    ]_vars

\* C1 witness: session 2 was started while session 1 was still connecting (no event
\* had been delivered before), and then a market_result of session 1 arrived
C1_Witness ==
    /\ sent = 1
    /\ wire.kind = "top"
    /\ wire.src = 1
    /\ wire.gen = 2
    /\ wire.frame.name = "market_result"
    /\ dom.marketCards = <<>>

\* C2: at most one top-level stream is open, and a top-level stream that is open is
\* the one currentSource refers to.
C2_AtMostOneLiveSession ==
    /\ Cardinality(Live(sources)) <= 1
    /\ \A s \in Live(sources) : currentSource = s

\* C2 witness: a second session was started while the first was open, which
\* closed the first and left the second open
C2_Witness ==
    /\ Len(sources) = 2
    /\ sent = 0
    /\ sources[1] = "CLOSED"
    /\ sources[2] # "CLOSED"
    /\ currentSource = 2

\* C3 (as claimed): when the last event dispatched on a top-level source is an
\* error event with a payload, that source is closed (the session is Terminated),
\* so that no later frame of it is accepted.
C3_FailureTerminates ==
    (wire.kind = "top" /\ wire.dispatched /\ wire.frame.name = "error"
        /\ wire.frame.hasData)
    => sources[wire.src] = "CLOSED"

\* C4 (as claimed): when the last event on a top-level source is a transport error
\* (an error without payload), the session is Terminated in every case: that
\* source is closed, so that no later frame of it is processed.
C4_TransportErrorTerminates ==
    (wire.kind = "top" /\ wire.dispatched /\ wire.frame = ConnectionError)
    => sources[wire.src] = "CLOSED"

\* C5: the result cards hold exactly the payloads of the market_result events
\* dispatched by the latest session since its start, one card per event, in
\* arrival order; the list is empty right after each startAnalysis.
C5_CardsAreReceivedResults == CardData(dom.marketCards) = received

\* C5 witness: a second session has received two different results after an event
\* of the first session
C5_Witness ==
    /\ Len(sources) = 2
    /\ sent = 3
    /\ Len(received) = 2
    /\ received[1] # received[2]
    /\ wire.gen = 2

\* the state right after the complete event of the latest session
JustCompleted ==
    /\ wire.kind = "top"
    /\ wire.dispatched
    /\ wire.frame.name = "complete"
    /\ wire.gen = Len(sources)

\* C6: after complete{completed, flagged: k} the result list holds the n payloads
\* received, the summary shows flagged = k, and the controller is terminated: the
\* source is closed, currentSource is null, and an event that still arrives from
\* the closed source changes nothing.
C6_FullRun ==
    /\ [](JustCompleted =>
            /\ Len(dom.marketCards) = Len(received)
            /\ CardData(dom.marketCards) = received
            /\ dom.summaryBox.flagged = wire.frame.flagged
            /\ dom.summaryBox.completed = wire.frame.completed
            /\ "summary" \notin dom.hidden
            /\ sources[wire.src] = "CLOSED"
            /\ currentSource = 0)
    /\ [][(IsTopEvent /\ wire'.src = Len(sources) /\ currentSource = 0) =>
             /\ dom' = dom
             /\ localStorage' = localStorage
             /\ sources' = sources
             /\ currentSource' = 0
       ]_vars

\* C6 witness: one session has received a progress event, then one result, then
\* complete
C6_Witness ==
    /\ JustCompleted
    /\ Len(sources) = 1
    /\ sent = 3
    /\ Len(received) = 1
    /\ dom.progressMsg = Text("Resolving")
    /\ dom.errorBox = ""

\* C8: every watchlist entry's history has at most 10 snapshots.
C8_HistoryCapped ==
    \A i \in DOMAIN getWatchlist(localStorage) :
        Len(getWatchlist(localStorage)[i].item.history) <= HistoryCap

\* C8 witness: an entry is at the cap and the oldest snapshot it had (the pin state
\* of the stored entry, ScanA) has been dropped
C8_Witness ==
    \E i \in DOMAIN getWatchlist(localStorage) :
        LET h == getWatchlist(localStorage)[i].item.history
        IN /\ Len(h) = HistoryCap
           /\ h[HistoryCap].scan_result = ScanB
           /\ sent >= 2

(***************************************************************************)
(* Store calls: pin on a present key, unpin twice                          *)
(***************************************************************************)
\* a step that is a call pin(d)
IsPinCall(d) ==
    /\ ops' = ops + 1
    /\ lastCall'.op = "pin"
    /\ lastCall'.data = d

\* a step that is a call unpin(id)
IsUnpinCall(id) ==
    /\ ops' = ops + 1
    /\ lastCall'.op = "unpin"
    /\ lastCall'.id = id

\* C11: pin(payload) on an itemId that is already in the store is a no-op on
\* content: the entry (saved result, savedAt, lastRefresh, history) is unchanged.
C11_PinPresentNoOp ==
    [][\A d \in Payloads :
         (IsPinCall(d) /\ isInWatchlist(localStorage, d.market.condition_id)) =>
            /\ isInWatchlist(localStorage', d.market.condition_id)
            /\ Entry(localStorage', d.market.condition_id)
                  = Entry(localStorage, d.market.condition_id)
    ]_vars

\* C12: unpin is idempotent: the call does not throw, the key is absent afterwards,
\* a second unpin of the same key does not throw and leaves the storage as the
\* first left it, and unpin of an absent key leaves the mapping as it was.
C12_UnpinIdempotent ==
    [][\A id \in Ids :
         IsUnpinCall(id) =>
            /\ ~lastCall'.threw
            /\ ~isInWatchlist(localStorage', id)
            /\ ~TypeError(localStorage')
            /\ removeFromWatchlist(localStorage', id) = localStorage'
            /\ (~isInWatchlist(localStorage, id) =>
                   getWatchlist(localStorage') = getWatchlist(localStorage))
            /\ \A k \in Ids \ {id} :
                   /\ isInWatchlist(localStorage', k) = isInWatchlist(localStorage, k)
                   /\ isInWatchlist(localStorage, k) =>
                          Entry(localStorage', k) = Entry(localStorage, k)
    ]_vars

\* C12 witness: an unpin of a key that was already absent, in a store that still
\* holds the other key with its history
C12_Witness ==
    /\ lastCall.op = "unpin"
    /\ ops >= 3
    /\ ~isInWatchlist(localStorage, lastCall.id)
    /\ \E k \in Ids : /\ isInWatchlist(localStorage, k)
                       /\ Len(Entry(localStorage, k).history) = 1

(***************************************************************************)
(* The page: which steps change the store                                  *)
(***************************************************************************)
StoredKeys(ls) == Keys(getWatchlist(ls))

\* a step in which a transport delivers a market_result that is dispatched
IsResultEvent(kind) ==
    /\ sent' = sent + 1
    /\ wire'.kind = kind
    /\ wire'.dispatched
    /\ wire'.frame.name = "market_result"

\* C13: the set of keys of the store changes only by a pin (one key added) or an
\* unpin (one key removed), both user actions: no step in which a stream delivers
\* an event or in which a stream is opened changes it.
C13_KeysChangeOnlyByPinUnpin ==
    [][/\ sent' = sent + 1 => StoredKeys(localStorage') = StoredKeys(localStorage)
       /\ StoredKeys(localStorage') # StoredKeys(localStorage) =>
             /\ sent' = sent
             /\ sources' = sources
             /\ Len(refreshes') = Len(refreshes)
             /\ \/ \E k \in Ids \ StoredKeys(localStorage) :
                      StoredKeys(localStorage') = StoredKeys(localStorage) \cup {k}
                \/ \E k \in StoredKeys(localStorage) :
                      StoredKeys(localStorage') = StoredKeys(localStorage) \ {k}
    ]_vars

\* C13 witness: the result of a refresh has been dispatched after the entry it was
\* started for was unpinned, while the store holds another entry
C13_Witness ==
    /\ wire.kind = "refresh"
    /\ wire.dispatched
    /\ wire.frame.name = "market_result"
    /\ refreshes[wire.src].conditionId \notin StoredKeys(localStorage)
    /\ wire.frame.payload.market.condition_id = refreshes[wire.src].conditionId
    /\ StoredKeys(localStorage) # {}

\* C14: a market_result of the top-level session is always appended to the result
\* list (the cards, in order of arrival); the store takes it, by the merge of a
\* refresh, if its market.condition_id is a key of the store when the event is
\* processed, and otherwise the storage is left as it is.
C14_Routing ==
    [][IsResultEvent("top") =>
          LET d == wire'.frame.payload
              id == d.market.condition_id
          IN /\ CardData(dom'.marketCards) = Append(CardData(dom.marketCards), d)
             /\ received' = Append(received, d)
             /\ IF id \in StoredKeys(localStorage)
                THEN /\ StoredKeys(localStorage') = StoredKeys(localStorage)
                     /\ Entry(localStorage', id) = MergeItem(Entry(localStorage, id), d, now)
                     /\ Entry(localStorage', id).scan_result = d.scan_result
                     /\ \A k \in StoredKeys(localStorage) \ {id} :
                           Entry(localStorage', k) = Entry(localStorage, k)
                ELSE localStorage' = localStorage
    ]_vars

\* C14 witness: the session has delivered a result for an unpinned key and then one
\* for the pinned key, whose entry now holds it
C14_Witness ==
    /\ wire.kind = "top"
    /\ wire.dispatched
    /\ wire.frame.name = "market_result"
    /\ Len(received) = 2
    /\ received[1].market.condition_id \notin StoredKeys(localStorage)
    /\ received[2].market.condition_id \in StoredKeys(localStorage)
    /\ Entry(localStorage, received[2].market.condition_id).scan_result
          = received[2].scan_result
    /\ Entry(localStorage, received[2].market.condition_id).history[1].scan_result
          # received[2].scan_result

\* C15: a pin of an absent key creates the entry from the payload received last for
\* that key from any stream, with an empty history and no lastRefresh.  Stated for
\* the pins made while the event delivered last is a market_result for that key.
C15_PinFromLastSeen ==
    [][\A k \in Ids :
         (/\ k \notin StoredKeys(localStorage)
          /\ k \in StoredKeys(localStorage')
          /\ wire.dispatched
          /\ wire.frame.name = "market_result"
          /\ wire.frame.payload.market.condition_id = k) =>
             LET e == Entry(localStorage', k)
                 d == wire.frame.payload
             IN /\ e.market = d.market
                /\ e.scan_result = d.scan_result
                /\ e.yes_holders = d.yes_holders
                /\ e.no_holders = d.no_holders
                /\ e.history = <<>>
                /\ e.lastRefresh = Undefined
    ]_vars

(***************************************************************************)
(* The change pills of a watchlist row: a pin and refreshes of one key     *)
(* with results that differ by amounts around the epsilon                  *)
(***************************************************************************)
MaxDiffRefreshes == 1

\* differences in ten-thousandths: 0.0009, 0.0010, 0.0011, both signs, and none
DiffSteps == {0 - 11, 0 - 10, 0 - 9, 0, 9, 10, 11}

DiffScan(p, q) ==
    [ScanA EXCEPT !.current_yes_price = @ + p, !.current_no_price = @ - p,
                  !.yes_analysis.profitable_pct = @ + q,
                  !.no_analysis.profitable_pct = @ - q]

DiffPayloads == { Payload(KeyUnderTest, DiffScan(p, q), 0, 1, 1) : p, q \in DiffSteps }

PinDiff(d) ==
    /\ ops = 0
    /\ CallPin(d)

RefreshDiff(d) ==
    /\ ops >= 1
    /\ ops <= MaxDiffRefreshes
    /\ CallMerge(KeyUnderTest, d)

NextDiff ==
    \/ \E d \in DiffPayloads : PinDiff(d)
    \/ \E d \in DiffPayloads : RefreshDiff(d)

SpecDiff == InitHistory /\ [][NextDiff]_vars

\* the deltas of an entry that has a history: current minus history[0]
PriceDelta(e) == e.scan_result.current_yes_price - e.history[1].yes_price

ProfDelta(e) == e.scan_result.yes_analysis.profitable_pct - e.history[1].yes_profitable_pct

Refreshed(ls) == { k \in StoredKeys(ls) : Entry(ls, k).history # <<>> }

Row(k) == watchlistItems[RowOf(watchlistItems, k)]

\* C17: after a mergeRefresh of a present key the profitability delta of its row is
\* the new payload's yes profitable percentage minus the one of the result saved
\* immediately before (never the new result against itself): above 0.001 in
\* absolute value it is the pill's delta, classified up when positive and down when
\* negative, and no pill otherwise.
C17_DeltaAgainstPreceding ==
    [][\A id \in Ids, d \in Payloads :
         (IsMergeCall(id, d) /\ id \in StoredKeys(localStorage)) =>
            LET old == Entry(localStorage, id)
                delta == d.scan_result.yes_analysis.profitable_pct
                           - old.scan_result.yes_analysis.profitable_pct
                pill == watchlistItems'[RowOf(watchlistItems', id)].profChange
            IN /\ ProfDelta(Entry(localStorage', id)) = delta
               /\ pill.shown <=> (Abs(delta) > 10)
               /\ pill.shown => /\ pill.delta = delta
                                /\ pill.class = IF delta > 0 THEN "change-up"
                                                 ELSE "change-down"
    ]_vars

\* C17 witness: pin(A) with 0.55, then mergeRefresh(id, B) with 0.70: the pill is
\* +0.15, classified up
C17_Witness ==
    /\ lastCall.op = "merge"
    /\ lastCall.id \in StoredKeys(localStorage)
    /\ LET e == Entry(localStorage, lastCall.id)
       IN /\ Len(e.history) = 1
          /\ e.history[1].yes_profitable_pct = 5500
          /\ e.scan_result.yes_analysis.profitable_pct = 7000
          /\ Row(lastCall.id).profChange =
                [shown |-> TRUE, class |-> "change-up", delta |-> 1500]

\* C18: an entry with an empty history produces no delta: its row has neither a
\* price pill nor a profitability pill, and its change cell holds the dash.
C18_NoHistoryNoDelta ==
    \A k \in StoredKeys(localStorage) \ Refreshed(localStorage) :
        /\ k \in RowKeys(watchlistItems)
        /\ ~Row(k).priceChange.shown
        /\ ~Row(k).profChange.shown
        /\ Row(k).priceChange = NoChange
        /\ Row(k).profChange = NoChange
        /\ Row(k).changeCell = "no-change"

\* C18 witness: a key was just pinned next to an entry whose row shows a delta
C18_Witness ==
    /\ lastCall.op = "pin"
    /\ lastCall.id \in StoredKeys(localStorage) \ Refreshed(localStorage)
    /\ Row(lastCall.id).changeCell = "no-change"
    /\ \E k \in Refreshed(localStorage) : Row(k).changeCell # "no-change"

(***************************************************************************)
(* Call-level specification of the store on faulty storage: the persisted  *)
(* key may hold any text, and setItem may fail                             *)
(***************************************************************************)
FaultyStorages == PersistedStorages \cup { <<CorruptText>>, <<NullText>> }

InitFaults ==
    /\ storageFull = FALSE
    /\ localStorage \in FaultyStorages
    /\ now = 0
    /\ watchlistItems = updateWatchlistUI(localStorage)
    /\ ops = 0
    /\ lastCall = NoCall
    /\ calls = <<>>
    /\ InitApp

\* isInWatchlist(id)
CallHas(id) ==
    /\ ops < MaxOps
    /\ ops' = ops + 1
    /\ lastCall' = [op |-> "has", id |-> id, data |-> NoCall.data,
                    threw |-> TypeError(localStorage)]
    /\ UNCHANGED <<localStorage, now, watchlistItems, calls, storageFull>>
    /\ UNCHANGED appVars

\* getWatchlist(): it returns what the text parses to, also when that is null
CallAll ==
    /\ ops < MaxOps
    /\ ops' = ops + 1
    /\ lastCall' = [op |-> "all", id |-> NoCall.id, data |-> NoCall.data, threw |-> FALSE]
    /\ UNCHANGED <<localStorage, now, watchlistItems, calls, storageFull>>
    /\ UNCHANGED appVars

\* the storage runs out of quota, or gets room again
QuotaChange ==
    /\ storageFull' = ~storageFull
    /\ UNCHANGED <<localStorage, now, watchlistItems, ops, lastCall, calls>>
    /\ UNCHANGED appVars

NextFaults ==
    \/ \E d \in Payloads : CallPin(d)
    \/ \E id \in Ids : CallUnpin(id)
    \/ \E id \in Ids, d \in Payloads : CallMerge(id, d)
    \/ \E id \in Ids : CallHas(id)
    \/ CallAll
    \/ QuotaChange
    \/ Tick

SpecFaults == InitFaults /\ [][NextFaults]_vars

\* C19: every store operation returns without raising an error to its caller,
\* whatever the persisted key holds, and a missing or unparseable key is read as
\* the empty mapping.
C19_StoreTotal ==
    /\ ~lastCall.threw
    /\ (localStorage = <<>> \/ localStorage = <<CorruptText>>) =>
          getWatchlist(localStorage) = <<>>

\* a step that is a call of pin, unpin or mergeRefresh that reaches its write
IsWritingCall ==
    /\ ops' = ops + 1
    /\ lastCall'.op \in {"pin", "unpin", "merge"}
    /\ ~TypeError(localStorage)

\* C20: when setItem fails during pin, unpin or mergeRefresh, no error reaches the
\* caller and the persisted item is exactly as it was before the call; the next
\* read returns the same mapping, and the rows rendered after the call are its rows.
C20_WriteFailureSwallowed ==
    [][(IsWritingCall /\ storageFull) =>
          /\ ~lastCall'.threw
          /\ localStorage' = localStorage
          /\ getWatchlist(localStorage') = getWatchlist(localStorage)
          /\ watchlistItems' = updateWatchlistUI(localStorage)
    ]_vars

\* C20 witness: a pin of an absent key was made while the storage refused the
\* write: the call returned and the store still holds only the other entry
C20_Witness ==
    /\ storageFull
    /\ lastCall.op = "pin"
    /\ ~lastCall.threw
    /\ lastCall.id \notin StoredKeys(localStorage)
    /\ StoredKeys(localStorage) # {}

(***************************************************************************)
(* The streams with frames whose data does not parse                       *)
(***************************************************************************)
DecodeFrames == MalformedFrames \cup ResultFrames \cup CompleteFrames

NextDecode ==
    \/ Submit
    \/ \E k \in Ids : ClickRefresh(k)
    \/ \E s \in 1 .. MaxStreams, f \in DecodeFrames : Deliver(s, f)
    \/ \E r \in 1 .. MaxStreams, f \in DecodeFrames : RefreshDeliver(r, f)

SpecDecode == Init /\ [][NextDecode]_vars

\* a step in which a stream of the given kind dispatches a frame that does not parse
IsMalformedEvent(kind) ==
    /\ sent' = sent + 1
    /\ wire'.kind = kind
    /\ wire'.dispatched
    /\ wire'.frame.malformed

\* C21: a frame of a known event name whose data does not parse is skipped: on the
\* top-level stream it changes neither the cards, nor anything else displayed, nor
\* the store, nor the session (the source stays live and current, so later frames
\* are dispatched to the same listeners); on a refresh stream a market_result
\* that does not parse changes neither the store nor the rows and leaves the
\* stream open.
C21_DecodeErrorSkipped ==
    [][/\ IsMalformedEvent("top") =>
             /\ dom' = dom
             /\ received' = received
             /\ localStorage' = localStorage
             /\ watchlistItems' = watchlistItems
             /\ refreshes' = refreshes
             /\ currentSource' = currentSource
             /\ currentSource = wire'.src
             /\ sources'[wire'.src] = "OPEN"
             /\ \A s \in DOMAIN sources \ {wire'.src} : sources'[s] = sources[s]
       /\ (IsMalformedEvent("refresh") /\ wire'.frame.name = "market_result") =>
             /\ localStorage' = localStorage
             /\ watchlistItems' = watchlistItems
             /\ refreshes'[wire'.src].readyState = "OPEN"
             /\ dom' = dom
             /\ sources' = sources
    ]_vars

\* C21 witness: the session dispatched a frame that did not parse and then a
\* well-formed market_result, which was rendered and merged
C21_Witness ==
    /\ Len(sources) = 1
    /\ refreshes = <<>>
    /\ sent = 2
    /\ wire.kind = "top"
    /\ wire.dispatched
    /\ wire.frame.name = "market_result"
    /\ ~wire.frame.malformed
    /\ CardData(dom.marketCards) = <<wire.frame.payload>>
    /\ wire.frame.payload.market.condition_id \in StoredKeys(localStorage)
    /\ Entry(localStorage, wire.frame.payload.market.condition_id).scan_result
          = wire.frame.payload.scan_result

(***************************************************************************)
(* The page: failures of the top-level session                             *)
(***************************************************************************)
\* a step in which the top-level stream dispatches an event of the given name
IsTopDispatch(name) ==
    /\ IsTopEvent
    /\ wire'.dispatched
    /\ ~wire'.frame.malformed
    /\ wire'.frame.name = name

\* C22: an error event with data shows the error section with exactly the message
\* of its data; an error event without data (the signal of the transport) leaves
\* the error box and the visibility of the error section as they are.
C22_ErrorMessageShown ==
    [][IsTopDispatch("error") =>
          IF wire'.frame.hasData
          THEN /\ dom'.errorBox = wire'.frame.message
               /\ "error" \notin dom'.hidden
          ELSE /\ dom'.errorBox = dom.errorBox
               /\ ("error" \in dom'.hidden) <=> ("error" \in dom.hidden)
    ]_vars

\* C22 witness: after an error event whose message is shown, a transport error
\* has been dispatched and the message is still the one shown
C22_Witness ==
    /\ wire.kind = "top"
    /\ wire.dispatched
    /\ wire.frame = ConnectionError
    /\ dom.errorBox = "boom"
    /\ "error" \notin dom.hidden

\* C23: no rollback of partial results: an error event, with or without data,
\* leaves every card where it is; in any step the cards already rendered stay, in
\* their order, unless the step is a startAnalysis (a new source is created),
\* which empties the list.
C23_NoRollback ==
    [][/\ IsTopDispatch("error") => CardData(dom'.marketCards) = CardData(dom.marketCards)
       /\ \/ /\ Len(dom'.marketCards) >= Len(dom.marketCards)
             /\ SubSeq(CardData(dom'.marketCards), 1, Len(dom.marketCards))
                   = CardData(dom.marketCards)
          \/ /\ Len(sources') = Len(sources) + 1
             /\ dom'.marketCards = <<>>
    ]_vars

\* C23 witness: a session that had rendered two cards was ended by a transport
\* error, and both cards are still there
C23_Witness ==
    /\ wire.kind = "top"
    /\ wire.dispatched
    /\ wire.frame = ConnectionError
    /\ sources[wire.src] = "CLOSED"
    /\ Len(dom.marketCards) = 2
    /\ CardData(dom.marketCards) = received

(***************************************************************************)
(* The page: the top-level stream and the refresh streams side by side     *)
(***************************************************************************)
ReadyStates(refs) == [r \in DOMAIN refs |-> refs[r].readyState]

TargetKey(w, refs) ==
    IF w.kind = "top" THEN w.frame.payload.market.condition_id
    ELSE refs[w.src].conditionId

\* the top-level session and a refresh of the same key have each delivered one
\* result, the session first, to an entry that was not pinned again since
BothArrived ==
    /\ sent = 2
    /\ Len(sources) = 1
    /\ Len(refreshes) = 1
    /\ Len(received) = 1
    /\ wire.kind = "refresh"
    /\ wire.dispatched
    /\ wire.frame.name = "market_result"
    /\ refreshes[1].conditionId = received[1].market.condition_id
    /\ refreshes[1].conditionId \in StoredKeys(localStorage)
    /\ Len(Entry(localStorage, refreshes[1].conditionId).history) = HistoryCap

KeySeq(ls) == [i \in DOMAIN getWatchlist(ls) |-> getWatchlist(ls)[i].key]

C27_EntryHoldsOwnKey ==
    \A k \in StoredKeys(localStorage) : Entry(localStorage, k).market.condition_id = k

RefreshEnders == {"market_result", "error", "complete"}

\* a step in which refresh stream r's transport delivers an event
IsRefreshEvent(r) ==
    /\ sent' = sent + 1
    /\ wire'.kind = "refresh"
    /\ wire'.src = r

C29_ControlReenabled ==
    /\ [](dom.analyzeDisabled => Live(sources) # {})
    /\ [][(IsTopDispatch("complete") \/ IsTopDispatch("error")) => ~dom'.analyzeDisabled]_vars

\* C30: in every reachable state each rendered result card's bookmark button is
\* active exactly when the card's condition_id is a key of the stored watchlist.
C30_BookmarkMatchesStore ==
    \A i \in DOMAIN dom.marketCards :
        dom.marketCards[i].active
            <=> dom.marketCards[i].data.market.condition_id \in StoredKeys(localStorage)

\* a step that is a call of pin, unpin or mergeRefresh
IsStoreCall == ops' = ops + 1 /\ lastCall'.op \in {"pin", "unpin", "merge"}

\* C31: pin, unpin and mergeRefresh for itemId X leave every other key as it was:
\* a key other than X is stored after the call exactly if it was stored before,
\* and its entry (saved result, savedAt, lastRefresh, history) is the same.
C31_OtherEntriesUnchanged ==
    [][IsStoreCall =>
         \A k \in Ids \ {lastCall'.id} :
            /\ isInWatchlist(localStorage', k) <=> isInWatchlist(localStorage, k)
            /\ isInWatchlist(localStorage, k) =>
                  Entry(localStorage', k) = Entry(localStorage, k)
    ]_vars

\* C31 witness: key X was pinned and then refreshed next to another stored key
\* that holds a history
C31_Witness ==
    /\ lastCall.op = "merge"
    /\ isInWatchlist(localStorage, lastCall.id)
    /\ Entry(localStorage, lastCall.id).history # <<>>
    /\ \E k \in Ids \ {lastCall.id} :
          /\ isInWatchlist(localStorage, k)
          /\ Entry(localStorage, k).history # <<>>

\* the time at which the state an entry holds was stored
StoredAt(item) == IF item.lastRefresh # Undefined THEN item.lastRefresh ELSE item.savedAt

\* timestamps never increase from the front of a history to its end
MostRecentFirst(history) ==
    \A i \in 1..(Len(history) - 1) : history[i].timestamp >= history[i + 1].timestamp

\* C32: with a clock that never goes back, every entry's history is ordered
\* most-recent-first by timestamp, and every snapshot's timestamp is the time at
\* which the state it captures was stored: a refresh stamps the new snapshot with
\* the lastRefresh (or, if never refreshed, the savedAt) of the state it replaces
\* and keeps the stamps of the older snapshots, so no snapshot is older than the
\* pin, none is younger than the state now held, and the last snapshot of a
\* history that was never truncated carries savedAt.
C32_HistoryOrderedByTime ==
    /\ [](\A id \in Ids :
            isInWatchlist(localStorage, id) =>
               LET e == Entry(localStorage, id)
                   h == e.history
               IN /\ MostRecentFirst(h)
                  /\ \A i \in DOMAIN h : /\ h[i].timestamp >= e.savedAt
                                          /\ h[i].timestamp <= StoredAt(e)
                  /\ (h # <<>> /\ Len(h) < HistoryCap) => h[Len(h)].timestamp = e.savedAt)
    /\ [][\A id \in Ids, d \in Payloads :
            (IsMergeCall(id, d) /\ isInWatchlist(localStorage, id)) =>
               LET old == Entry(localStorage, id)
                   new == Entry(localStorage', id)
               IN /\ new.history[1].timestamp = StoredAt(old)
                  /\ \A i \in 2..Len(new.history) :
                        new.history[i].timestamp = old.history[i - 1].timestamp
       ]_vars

\* C32 witness: an entry refreshed at two different times holds a history whose
\* first snapshot is younger than its last and older than the state now held
C32_Witness ==
    \E id \in Ids :
        /\ isInWatchlist(localStorage, id)
        /\ LET e == Entry(localStorage, id)
               h == e.history
           IN /\ Len(h) >= 2
              /\ h[1].timestamp > h[Len(h)].timestamp
              /\ StoredAt(e) > e.savedAt

====
